---------------------------- MODULE Spec2Model ----------------------------
(***************************************************************************)
(* Model of examples/functional_api.ipynb (the notebook run top to bottom: *)
(* dataloaders, baseline run, ColOut dataloaders, second run,              *)
(* squeeze-excite, third run) and of .github/workflows/pr-gpu.yaml (the    *)
(* "PR GPU tests" workflow: triggers, concurrency group, the gated job).   *)
(***************************************************************************)
EXTENDS Integers, Sequences, FiniteSets, TLC

(***************************************************************************)
(* Bounds.  CIFAR-10 has 50000 training and 10000 test images and the      *)
(* notebook uses batch_size = 1024; the model keeps the shape (several     *)
(* batches, the last one short) with small numbers.                        *)
(***************************************************************************)
TrainSetSize == 3

TestSetSize == 3

BatchSize == 2

MaxRuns == 3

\* functional_api.ipynb line 142
num_epochs == 5

VARIABLES
    \* ---- notebook: name bindings and heap ----
    cell,              \* the next notebook cell to run
    lists,             \* heap of Python lists: list id -> sequence of transforms
    shared_transforms, \* list id bound to shared_transforms (0: unbound)
    train_transforms,  \* list id bound to train_transforms
    test_transform,    \* Compose object: the list id it holds
    train_transform,   \* Compose object: the list id it holds
    trainloader,       \* [transform: list id held by the dataset's Compose]
    testloader,
    models,            \* heap of Net objects: model id -> record
    model,             \* model id bound to the global name model (0: unbound)
    \* ---- train_and_eval frame ----
    pc,
    call,              \* number of train_and_eval calls started
    m,                 \* the parameter model: model id
    opt,               \* the optimizer of this call
    epoch,
    b,                 \* index of the training batch in this epoch
    tb,                \* index of the test batch in this evaluation
    X,                 \* the batch at hand
    y_hat,             \* evaluation: number of right predictions in the batch
    num_right,
    eval_size,
    acc_percent,       \* the printed accuracy, as the fraction num / den
    \* ---- history ----
    log,               \* operations of the current call, in order
    seen,              \* (right, len) of each test batch of the current evaluation
    step_grad,         \* the gradient the latest opt.step() consumed
    entry,             \* per call: the model passed and its earlier optimizer steps
    \* ---- workflow ----
    repository_owner,
    prs,               \* open pull requests: number -> [head, base]
    runs               \* workflow runs, in the order they were triggered

nbvars == <<cell, lists, shared_transforms, train_transforms, test_transform,
            train_transform, trainloader, testloader, models, model>>

framevars == <<pc, call, m, opt, epoch, b, tb, X, y_hat, num_right, eval_size,
               acc_percent>>

histvars == <<log, seen, step_grad, entry>>

civars == <<repository_owner, prs, runs>>

vars == <<nbvars, framevars, histvars, civars>>

Min(x, y) == IF x < y THEN x ELSE y

RECURSIVE SumOf(_, _)
SumOf(s, f) == IF s = <<>> THEN 0 ELSE s[1][f] + SumOf(Tail(s), f)

---------------------------------------------------------------------------
(* torch.utils.data.DataLoader with drop_last = False *)

\* len(DataLoader): ceil(n / batch_size)
NumBatches(n) == (n + BatchSize - 1) \div BatchSize

\* number of samples in batch i (0-based); the last batch may be short
BatchLen(n, i) == Min(BatchSize, n - i * BatchSize)

---------------------------------------------------------------------------
(* The transforms, by name *)

ToTensor == "ToTensor"

Normalize == "Normalize((0.5,0.5,0.5),(0.5,0.5,0.5))"

colout_batch == "cf.colout_batch"

\* class Net: a new object, never stepped, no gradients, no squeeze-excite
Net == [steps |-> 0, grad |-> <<>>, training |-> TRUE, se |-> FALSE]

NoBatch == [call |-> 0, epoch |-> 0, b |-> 0, len |-> 0, tf |-> <<>>, test |-> FALSE]

NoOpt == [id |-> 0, model |-> 0, t |-> 0]

NbInit ==
    /\ cell = "dataloaders"
    /\ lists = <<>>
    /\ shared_transforms = 0
    /\ train_transforms = 0
    /\ test_transform = 0
    /\ train_transform = 0
    /\ trainloader = [transform |-> 0]
    /\ testloader = [transform |-> 0]
    /\ models = <<>>
    /\ model = 0
    /\ pc = "idle"
    /\ call = 0
    /\ m = 0
    /\ opt = NoOpt
    /\ epoch = 0
    /\ b = 0
    /\ tb = 0
    /\ X = NoBatch
    /\ y_hat = 0
    /\ num_right = 0
    /\ eval_size = 0
    /\ acc_percent = [num |-> 0, den |-> 0]
    /\ log = <<>>
    /\ seen = <<>>
    /\ step_grad = <<>>
    /\ entry = <<>>

---------------------------------------------------------------------------
(* Notebook cells *)

\* transform = transforms.Compose([ToTensor(), Normalize(...)]); both datasets
\* and loaders are built on it
CellDataloaders ==
    /\ cell = "dataloaders"
    /\ lists' = Append(lists, <<ToTensor, Normalize>>)
    /\ trainloader' = [transform |-> Len(lists')]
    /\ testloader' = [transform |-> Len(lists')]
    /\ cell' = "baseline"
    /\ UNCHANGED <<shared_transforms, train_transforms, test_transform,
                   train_transform, models, model>>
    /\ UNCHANGED <<framevars, histvars, civars>>

\* the call train_and_eval(model, trainloader, testloader): binds the parameter
CallTrainAndEval(mdl) ==
    /\ pc = "idle"
    /\ pc' = "setup"
    /\ call' = call + 1
    /\ m' = mdl
    /\ UNCHANGED <<opt, epoch, b, tb, X, y_hat, num_right, eval_size, acc_percent>>

\* model = Net(); train_and_eval(model, trainloader, testloader)
CellBaseline ==
    /\ cell = "baseline"
    /\ models' = Append(models, Net)
    /\ model' = Len(models')
    /\ CallTrainAndEval(model')
    /\ cell' = "baseline_running"
    /\ UNCHANGED <<lists, shared_transforms, train_transforms, test_transform,
                   train_transform, trainloader, testloader>>
    /\ UNCHANGED <<histvars, civars>>


\* shared_transforms = [...]; train_transforms = shared_transforms[:] + [cf.colout_batch]
\* with the slice and the + each building a new list; the Compose objects keep
\* the list they are given; the datasets and loaders are rebuilt on them.
ColOutTransformsAliased ==
    \* shared_transforms.append(cf.colout_batch); train_transforms = shared_transforms
    /\ lists' = Append(lists, <<ToTensor, Normalize, colout_batch>>)
    /\ shared_transforms' = Len(lists')
    /\ train_transforms' = Len(lists')

ColOutTransforms ==
    LET l1 == Append(lists, <<ToTensor, Normalize>>)       \* the literal
        l2 == Append(l1, l1[Len(l1)])                      \* shared_transforms[:]
        l3 == Append(l2, l2[Len(l2)] \o <<colout_batch>>)  \* ... + [cf.colout_batch]
    IN  /\ lists' = l3
        /\ shared_transforms' = Len(l1)
        /\ train_transforms' = Len(l3)

CellColOut ==
    /\ cell = "colout"
    /\ ColOutTransforms
    /\ test_transform' = shared_transforms'
    /\ train_transform' = train_transforms'
    /\ trainloader' = [transform |-> train_transform']
    /\ testloader' = [transform |-> test_transform']
    /\ cell' = "second"
    /\ UNCHANGED <<models, model>>
    /\ UNCHANGED <<framevars, histvars, civars>>

\* the second run without its first line, model = Net()
CellSecondReusingModel ==
    /\ cell = "second"
    /\ CallTrainAndEval(model)
    /\ cell' = "second_running"
    /\ UNCHANGED <<lists, shared_transforms, train_transforms, test_transform,
                   train_transform, trainloader, testloader, models, model>>
    /\ UNCHANGED <<histvars, civars>>

\* model = Net(); train_and_eval(model, trainloader, testloader)
CellSecond ==
    /\ cell = "second"
    /\ models' = Append(models, Net)
    /\ model' = Len(models')
    /\ CallTrainAndEval(model')
    /\ cell' = "second_running"
    /\ UNCHANGED <<lists, shared_transforms, train_transforms, test_transform,
                   train_transform, trainloader, testloader>>
    /\ UNCHANGED <<histvars, civars>>

\* composer.functional.apply_squeeze_excite: modules are replaced inside the
\* model it is given; the object stays the same one
apply_squeeze_excite(heap, id) == [heap EXCEPT ![id].se = TRUE]

\* cf.apply_squeeze_excite(model, latent_channels=64, min_channels=16); the
\* value it returns is dropped and the name model is not rebound
CellSqueezeExcite ==
    /\ cell = "squeeze_excite"
    /\ models' = apply_squeeze_excite(models, model)
    /\ cell' = "third"
    /\ UNCHANGED <<lists, shared_transforms, train_transforms, test_transform,
                   train_transform, trainloader, testloader, model>>
    /\ UNCHANGED <<framevars, histvars, civars>>

\* train_and_eval(model, trainloader, testloader)
CellThird ==
    /\ cell = "third"
    /\ CallTrainAndEval(model)
    /\ cell' = "third_running"
    /\ UNCHANGED <<lists, shared_transforms, train_transforms, test_transform,
                   train_transform, trainloader, testloader, models, model>>
    /\ UNCHANGED <<histvars, civars>>

AfterCell(c) ==
    CASE c = "baseline_running" -> "colout"
      [] c = "second_running" -> "squeeze_excite"
      [] c = "third_running" -> "done"

---------------------------------------------------------------------------
(* train_and_eval, one action per statement *)

TrainOps == <<"forward", "loss", "backward", "step", "zero_grad">>

Logged(op) == Append(log, [op |-> op, epoch |-> epoch, b |-> b])

BatchId(x) == [call |-> x.call, epoch |-> x.epoch, b |-> x.b]

\* torch.manual_seed(42); model = model.to(device) (the same object);
\* opt = torch.optim.Adam(model.parameters()): a new optimizer with no state
Setup ==
    /\ pc = "setup"
    /\ opt' = [id |-> call, model |-> m, t |-> 0]
    /\ epoch' = 0
    /\ pc' = "epoch"
    /\ log' = <<>>
    /\ entry' = Append(entry, [model |-> m, steps |-> models[m].steps,
                               grad |-> models[m].grad])
    /\ UNCHANGED <<call, m, b, tb, X, y_hat, num_right, eval_size, acc_percent>>
    /\ UNCHANGED <<seen, step_grad>>
    /\ UNCHANGED <<nbvars, civars>>

\* for epoch in range(num_epochs): print(...); model.train(); tqdm(train_loader)
EpochBegin ==
    /\ pc = "epoch"
    /\ IF epoch < num_epochs
       THEN /\ models' = [models EXCEPT ![m].training = TRUE]
            /\ b' = 0
            /\ pc' = "fetch"
       ELSE /\ pc' = "return"
            /\ UNCHANGED <<models, b>>
    /\ UNCHANGED <<call, m, opt, epoch, tb, X, y_hat, num_right, eval_size, acc_percent>>
    /\ UNCHANGED <<cell, lists, shared_transforms, train_transforms, test_transform,
                   train_transform, trainloader, testloader, model>>
    /\ UNCHANGED <<histvars, civars>>

\* the evaluation dedented out of the epoch loop: it runs after the last epoch only
TrainFetchEvalAtEnd ==
    /\ pc = "fetch"
    /\ IF b < NumBatches(TrainSetSize)
       THEN /\ X' = [call |-> call, epoch |-> epoch, b |-> b,
                     len |-> BatchLen(TrainSetSize, b),
                     tf |-> lists[trainloader.transform], test |-> FALSE]
            /\ pc' = "forward"
            /\ UNCHANGED epoch
       ELSE /\ IF epoch + 1 < num_epochs
               THEN pc' = "epoch" /\ epoch' = epoch + 1
               ELSE pc' = "eval" /\ UNCHANGED epoch
            /\ UNCHANGED X
    /\ UNCHANGED <<call, m, opt, b, tb, y_hat, num_right, eval_size, acc_percent>>
    /\ UNCHANGED <<nbvars, histvars, civars>>

\* for X, y in progress_bar: the next batch, through the train set's transform
TrainFetch ==
    /\ pc = "fetch"
    /\ IF b < NumBatches(TrainSetSize)
       THEN /\ X' = [call |-> call, epoch |-> epoch, b |-> b,
                     len |-> BatchLen(TrainSetSize, b),
                     tf |-> lists[trainloader.transform], test |-> FALSE]
            /\ pc' = "forward"
       ELSE /\ pc' = "eval"
            /\ UNCHANGED X
    /\ UNCHANGED <<call, m, opt, epoch, b, tb, y_hat, num_right, eval_size, acc_percent>>
    /\ UNCHANGED <<nbvars, histvars, civars>>

\* y_hat = model(X)
Forward ==
    /\ pc = "forward"
    /\ pc' = "loss"
    /\ log' = Logged("forward")
    /\ UNCHANGED <<call, m, opt, epoch, b, tb, X, y_hat, num_right, eval_size, acc_percent>>
    /\ UNCHANGED <<seen, step_grad, entry>>
    /\ UNCHANGED <<nbvars, civars>>

\* loss = F.cross_entropy(y_hat, y); progress_bar.set_postfix_str(...)
Loss ==
    /\ pc = "loss"
    /\ pc' = "backward"
    /\ log' = Logged("loss")
    /\ UNCHANGED <<call, m, opt, epoch, b, tb, X, y_hat, num_right, eval_size, acc_percent>>
    /\ UNCHANGED <<seen, step_grad, entry>>
    /\ UNCHANGED <<nbvars, civars>>

\* loss.backward(): the batch's gradient is added to the parameters' .grad
Backward ==
    /\ pc = "backward"
    /\ models' = [models EXCEPT ![m].grad = Append(@, BatchId(X))]
    /\ pc' = "step"
    /\ log' = Logged("backward")
    /\ UNCHANGED <<call, m, opt, epoch, b, tb, X, y_hat, num_right, eval_size, acc_percent>>
    /\ UNCHANGED <<seen, step_grad, entry>>
    /\ UNCHANGED <<cell, lists, shared_transforms, train_transforms, test_transform,
                   train_transform, trainloader, testloader, model>>
    /\ UNCHANGED civars

\* gradient accumulation: the optimizer steps on every second batch only
OptStepEverySecondBatch ==
    /\ pc = "step"
    /\ IF b % 2 = 1
       THEN /\ step_grad' = models[opt.model].grad
            /\ models' = [models EXCEPT ![opt.model].steps = @ + 1]
            /\ opt' = [opt EXCEPT !.t = @ + 1]
            /\ log' = Logged("step")
       ELSE UNCHANGED <<step_grad, models, opt, log>>
    /\ pc' = "zero_grad"
    /\ UNCHANGED <<call, m, epoch, b, tb, X, y_hat, num_right, eval_size, acc_percent>>
    /\ UNCHANGED <<seen, entry>>
    /\ UNCHANGED <<cell, lists, shared_transforms, train_transforms, test_transform,
                   train_transform, trainloader, testloader, model>>
    /\ UNCHANGED civars

\* opt.step(): the parameters move by what is in .grad
OptStep ==
    /\ pc = "step"
    /\ step_grad' = models[opt.model].grad
    /\ models' = [models EXCEPT ![opt.model].steps = @ + 1]
    /\ opt' = [opt EXCEPT !.t = @ + 1]
    /\ pc' = "zero_grad"
    /\ log' = Logged("step")
    /\ UNCHANGED <<call, m, epoch, b, tb, X, y_hat, num_right, eval_size, acc_percent>>
    /\ UNCHANGED <<seen, entry>>
    /\ UNCHANGED <<cell, lists, shared_transforms, train_transforms, test_transform,
                   train_transform, trainloader, testloader, model>>
    /\ UNCHANGED civars

\* the training loop without its last line, opt.zero_grad()
ZeroGradOmitted ==
    /\ pc = "zero_grad"
    /\ b' = b + 1
    /\ pc' = "fetch"
    /\ UNCHANGED <<call, m, opt, epoch, tb, X, y_hat, num_right, eval_size, acc_percent>>
    /\ UNCHANGED <<nbvars, histvars, civars>>

\* opt.zero_grad(): .grad of every parameter the optimizer holds is cleared;
\* the batch is done and the loop goes to the next one
ZeroGrad ==
    /\ pc = "zero_grad"
    /\ models' = [models EXCEPT ![opt.model].grad = <<>>]
    /\ log' = Logged("zero_grad")
    /\ b' = b + 1
    /\ pc' = "fetch"
    /\ UNCHANGED <<call, m, opt, epoch, tb, X, y_hat, num_right, eval_size, acc_percent>>
    /\ UNCHANGED <<seen, step_grad, entry>>
    /\ UNCHANGED <<cell, lists, shared_transforms, train_transforms, test_transform,
                   train_transform, trainloader, testloader, model>>
    /\ UNCHANGED civars

\* the counters set to 0 once, before the epoch loop, instead of in it
EvalBeginNoReset ==
    /\ pc = "eval"
    /\ models' = [models EXCEPT ![m].training = FALSE]
    /\ tb' = 0
    /\ seen' = <<>>
    /\ pc' = "eval_fetch"
    /\ UNCHANGED <<call, m, opt, epoch, b, X, y_hat, num_right, eval_size, acc_percent>>
    /\ UNCHANGED <<log, step_grad, entry>>
    /\ UNCHANGED <<cell, lists, shared_transforms, train_transforms, test_transform,
                   train_transform, trainloader, testloader, model>>
    /\ UNCHANGED civars

\* model.eval(); num_right = 0; eval_size = 0
EvalBegin ==
    /\ pc = "eval"
    /\ models' = [models EXCEPT ![m].training = FALSE]
    /\ num_right' = 0
    /\ eval_size' = 0
    /\ tb' = 0
    /\ seen' = <<>>
    /\ pc' = "eval_fetch"
    /\ UNCHANGED <<call, m, opt, epoch, b, X, y_hat, acc_percent>>
    /\ UNCHANGED <<log, step_grad, entry>>
    /\ UNCHANGED <<cell, lists, shared_transforms, train_transforms, test_transform,
                   train_transform, trainloader, testloader, model>>
    /\ UNCHANGED civars

\* for X, y in test_loader: the next batch, through the test set's transform
EvalFetch ==
    /\ pc = "eval_fetch"
    /\ IF tb < NumBatches(TestSetSize)
       THEN /\ X' = [call |-> call, epoch |-> epoch, b |-> tb,
                     len |-> BatchLen(TestSetSize, tb),
                     tf |-> lists[testloader.transform], test |-> TRUE]
            /\ pc' = "eval_forward"
       ELSE /\ pc' = "report"
            /\ UNCHANGED X
    /\ UNCHANGED <<call, m, opt, epoch, b, tb, y_hat, num_right, eval_size, acc_percent>>
    /\ UNCHANGED <<nbvars, histvars, civars>>

\* y_hat = model(X): of the len(y) predictions any number may be right
EvalForward ==
    /\ pc = "eval_forward"
    /\ \E right \in 0..X.len : y_hat' = right
    /\ pc' = "eval_count"
    /\ UNCHANGED <<call, m, opt, epoch, b, tb, X, num_right, eval_size, acc_percent>>
    /\ UNCHANGED <<nbvars, histvars, civars>>

\* num_right += (y_hat.argmax(dim=1) == y).sum().item(); eval_size += len(y)
EvalCount ==
    /\ pc = "eval_count"
    /\ num_right' = num_right + y_hat
    /\ eval_size' = eval_size + X.len
    /\ seen' = Append(seen, [right |-> y_hat, len |-> X.len])
    /\ tb' = tb + 1
    /\ pc' = "eval_fetch"
    /\ UNCHANGED <<call, m, opt, epoch, b, X, y_hat, acc_percent>>
    /\ UNCHANGED <<log, step_grad, entry>>
    /\ UNCHANGED <<nbvars, civars>>

\* acc_percent = 100 * num_right / eval_size (ZeroDivisionError when no test
\* sample was seen); print(...); the epoch is over
Report ==
    /\ pc = "report"
    /\ IF eval_size = 0
       THEN /\ pc' = "ZeroDivisionError"
            /\ UNCHANGED <<acc_percent, log, epoch>>
       ELSE /\ acc_percent' = [num |-> 100 * num_right, den |-> eval_size]
            /\ log' = Logged("print")
            /\ epoch' = epoch + 1
            /\ pc' = "epoch"
    /\ UNCHANGED <<call, m, opt, b, tb, X, y_hat, num_right, eval_size>>
    /\ UNCHANGED <<seen, step_grad, entry>>
    /\ UNCHANGED <<nbvars, civars>>

\* the function returns (None) and the cell that called it is over
Return ==
    /\ pc = "return"
    /\ pc' = "idle"
    /\ cell' = AfterCell(cell)
    /\ UNCHANGED <<call, m, opt, epoch, b, tb, X, y_hat, num_right, eval_size, acc_percent>>
    /\ UNCHANGED <<lists, shared_transforms, train_transforms, test_transform,
                   train_transform, trainloader, testloader, models, model>>
    /\ UNCHANGED <<histvars, civars>>

---------------------------------------------------------------------------
(* .github/workflows/pr-gpu.yaml *)

workflow == "PR GPU tests"

Owners == {"mosaicml", "jayhusemi"}

PRNumbers == {1, 2}

Branches == {"main", "dev", "feature"}

\* the branches the workflow is started on by hand
DispatchBranches == {"main", "feature"}

Ref(branch) == "refs/heads/" \o branch

NoPR == [head |-> "", base |-> ""]

\* on: pull_request_target (a pull request was opened or got a new commit)
PullRequestTarget(n) ==
    [name |-> "pull_request_target", number |-> n, head |-> prs[n].head,
     base |-> prs[n].base, ref |-> ""]

\* on: workflow_dispatch (started by hand on a branch): no pull request in the event
WorkflowDispatch(branch) ==
    [name |-> "workflow_dispatch", number |-> 0, head |-> "", base |-> "",
     ref |-> Ref(branch)]

\* github.ref: for pull_request_target the platform sets it to the pull
\* request's base branch; for workflow_dispatch to the branch the run was
\* started on
GithubRef(event) ==
    IF event.name = "pull_request_target" THEN Ref(event.base) ELSE event.ref

\* group: ${{ github.workflow }}-${{ github.event.pull_request.number || github.ref }}
ConcurrencyGroup(event) ==
    workflow \o "-" \o
        (IF event.number # 0 THEN ToString(event.number) ELSE GithubRef(event))

\* cancel-in-progress on every branch
CancelInProgressAlways(event) == TRUE

\* cancel-in-progress: ${{ github.ref != 'refs/heads/main' && github.ref != 'refs/heads/dev' }}
CancelInProgress(event) ==
    GithubRef(event) # "refs/heads/main" /\ GithubRef(event) # "refs/heads/dev"

\* the job without its condition
JobIfMissing == TRUE

\* jobs.pytest-gpu.if: github.repository_owner == 'mosaicml'
JobIf == repository_owner = "mosaicml"

Active(i) == runs[i].status \in {"pending", "in_progress"}

InGroup(g) == {i \in 1..Len(runs) : runs[i].group = g}

\* A run enters its concurrency group.  With cancel-in-progress the pending
\* and running runs of the group are cancelled and the new one starts; without
\* it the new run waits behind a running one and replaces a pending one.
Trigger(event) ==
    LET g == ConcurrencyGroup(event)
        busy == \E i \in InGroup(g) : runs[i].status = "in_progress"
        cancelled(i) ==
            /\ i \in InGroup(g)
            /\ \/ CancelInProgress(event) /\ Active(i)
               \/ ~CancelInProgress(event) /\ busy /\ runs[i].status = "pending"
        old == [i \in 1..Len(runs) |->
                   IF cancelled(i)
                   THEN [runs[i] EXCEPT !.status = "cancelled",
                                        !.job = IF @ = "running" THEN "cancelled" ELSE @]
                   ELSE runs[i]]
        new == [event |-> event, ref |-> GithubRef(event), group |-> g,
                status |-> IF ~CancelInProgress(event) /\ busy
                           THEN "pending" ELSE "in_progress",
                job |-> "none", secret |-> FALSE,
                found |-> {i \in 1..Len(runs) :
                              /\ runs[i].status = "in_progress"
                              /\ runs[i].event.name = "pull_request_target"
                              /\ event.name = "pull_request_target"
                              /\ runs[i].event.number = event.number}]
    IN  /\ Len(runs) < MaxRuns
        /\ runs' = Append(old, new)

\* a pull request from branch head into branch base is opened
OpenPR(n, head, base) ==
    /\ prs[n] = NoPR
    /\ prs' = [prs EXCEPT ![n] = [head |-> head, base |-> base]]
    /\ Trigger([name |-> "pull_request_target", number |-> n, head |-> head,
                base |-> base, ref |-> ""])
    /\ UNCHANGED repository_owner
    /\ UNCHANGED <<nbvars, framevars, histvars>>

\* a new commit is pushed to the head branch of an open pull request
PushToPR(n) ==
    /\ prs[n] # NoPR
    /\ Trigger(PullRequestTarget(n))
    /\ UNCHANGED <<repository_owner, prs>>
    /\ UNCHANGED <<nbvars, framevars, histvars>>

\* the workflow is started by hand
Dispatch(branch) ==
    /\ Trigger(WorkflowDispatch(branch))
    /\ UNCHANGED <<repository_owner, prs>>
    /\ UNCHANGED <<nbvars, framevars, histvars>>

\* jobs.pytest-gpu of a running run: skipped unless its condition holds; when
\* it runs, the reusable workflow is called with secrets.MCLOUD_API_KEY
StartJob(i) ==
    /\ runs[i].status = "in_progress"
    /\ runs[i].job = "none"
    /\ runs' = [runs EXCEPT ![i].job = IF JobIf THEN "running" ELSE "skipped",
                            ![i].secret = JobIf]
    /\ UNCHANGED <<repository_owner, prs>>
    /\ UNCHANGED <<nbvars, framevars, histvars>>

\* the run's job is over (or was skipped): the run completes and the run
\* pending in its group, if any, starts
CompleteRun(i) ==
    /\ runs[i].status = "in_progress"
    /\ runs[i].job \in {"running", "skipped"}
    /\ runs' = [j \in 1..Len(runs) |->
                   IF j = i
                   THEN [runs[j] EXCEPT !.status = "completed",
                                        !.job = IF @ = "running" THEN "done" ELSE @]
                   ELSE IF runs[j].group = runs[i].group /\ runs[j].status = "pending"
                   THEN [runs[j] EXCEPT !.status = "in_progress"]
                   ELSE runs[j]]
    /\ UNCHANGED <<repository_owner, prs>>
    /\ UNCHANGED <<nbvars, framevars, histvars>>

CIInit ==
    /\ repository_owner \in Owners
    /\ prs = [n \in PRNumbers |-> NoPR]
    /\ runs = <<>>

---------------------------------------------------------------------------
Init == NbInit /\ CIInit

\* the notebook, its cells run in order
Next ==
    \/ CellDataloaders
    \/ CellBaseline
    \/ CellColOut
    \/ CellSecond
    \/ CellSqueezeExcite
    \/ CellThird
    \/ Setup
    \/ EpochBegin
    \/ TrainFetch
    \/ Forward
    \/ Loss
    \/ Backward
    \/ OptStep
    \/ ZeroGrad
    \/ EvalBegin
    \/ EvalFetch
    \/ EvalForward
    \/ EvalCount
    \/ Report
    \/ Return

Spec == Init /\ [][Next]_vars

\* the workflow: events arrive, runs start, finish and are cancelled
NextCI ==
    \/ \E n \in PRNumbers, head \in Branches, base \in Branches : OpenPR(n, head, base)
    \/ \E n \in PRNumbers : PushToPR(n)
    \/ \E branch \in DispatchBranches : Dispatch(branch)
    \/ \E i \in 1..Len(runs) : StartJob(i)
    \/ \E i \in 1..Len(runs) : CompleteRun(i)

SpecCI == Init /\ [][NextCI]_vars

---------------------------------------------------------------------------
(* Properties of the notebook (Spec) *)

IsTrainOp(e) == \E k \in 1..Len(TrainOps) : TrainOps[k] = e.op

OpIndex(op) == CHOOSE k \in 1..Len(TrainOps) : TrainOps[k] = op

SameBatch(e, f) == e.epoch = f.epoch /\ e.b = f.b

Steps == {i \in 1..Len(log) : log[i].op = "step"}

Prints == {i \in 1..Len(log) : log[i].op = "print"}

EvalPcs == {"eval_fetch", "eval_forward", "eval_count", "report"}

BaseTransforms == <<ToTensor, Normalize>>

\* C1: every training batch is processed as forward, loss, backward, step,
\* zero_grad, in that order: each operation but the first directly follows
\* the one before it on the same batch (so a step always directly follows the
\* backward of its batch), a forward directly follows only the zero_grad of
\* an earlier batch or an epoch's evaluation, no batch has two steps, and
\* the optimizer has taken as many steps as the log shows.
C1_TrainingSequence ==
    /\ \A i \in 1..Len(log) :
          IsTrainOp(log[i]) =>
             LET k == OpIndex(log[i].op)
             IN  IF k = 1
                 THEN \/ i = 1
                      \/ /\ log[i-1].op \in {"zero_grad", "print"}
                         /\ ~SameBatch(log[i-1], log[i])
                 ELSE /\ i > 1
                      /\ log[i-1] = [op |-> TrainOps[k-1], epoch |-> log[i].epoch,
                                     b |-> log[i].b]
    /\ \A i \in Steps : \A j \in Steps : SameBatch(log[i], log[j]) => i = j
    /\ opt.t = Cardinality(Steps)
    /\ (pc = "fetch" /\ b > 0) =>
          log[Len(log)] = [op |-> "zero_grad", epoch |-> epoch, b |-> b - 1]

\* two training batches of one epoch are done, in the third call
C1_Witness ==
    /\ call = 3
    /\ pc = "fetch"
    /\ epoch = 1
    /\ b = 2
    /\ opt.t = NumBatches(TrainSetSize) + 2

\* C3: a call runs num_epochs epochs; each epoch's accuracy is printed once,
\* after all training batches of that epoch and before any of the next; the
\* call ends right after the last epoch's evaluation.
C3_EpochsAndEvaluations ==
    /\ \A i \in Prints :
          /\ \A j \in 1..Len(log) :
                IsTrainOp(log[j]) => (j < i <=> log[j].epoch <= log[i].epoch)
          /\ \A j \in Prints : log[j].epoch = log[i].epoch => j = i
          /\ Cardinality({j \in 1..Len(log) : /\ log[j].op = "zero_grad"
                                              /\ log[j].epoch = log[i].epoch})
                = NumBatches(TrainSetSize)
    /\ (pc \in {"return", "idle"} /\ call > 0) =>
          /\ Cardinality(Prints) = num_epochs
          /\ {log[i].epoch : i \in Prints} = 0..(num_epochs - 1)
          /\ log[Len(log)] = [op |-> "print", epoch |-> num_epochs - 1,
                              b |-> NumBatches(TrainSetSize)]
    /\ pc # "ZeroDivisionError"

\* a call has returned
C3_Witness ==
    /\ pc = "idle"
    /\ call = 2
    /\ Cardinality(Prints) = num_epochs

\* C4: after the ColOut cell shared_transforms still holds ToTensor and
\* Normalize only, train_transforms is another list, the shared transforms
\* followed by colout_batch, and the test transform has no colout_batch;
\* every test batch of every call goes through ToTensor and Normalize only,
\* as in the baseline run, and the training batches of the second and third
\* call go through colout_batch as well.
C4_ColOutOnlyInTraining ==
    /\ cell \notin {"dataloaders", "baseline", "baseline_running", "colout"} =>
          /\ lists[shared_transforms] = BaseTransforms
          /\ train_transforms # shared_transforms
          /\ lists[train_transforms] = BaseTransforms \o <<colout_batch>>
          /\ lists[test_transform] = BaseTransforms
          /\ \A k \in 1..Len(lists[test_transform]) :
                lists[test_transform][k] # colout_batch
          /\ lists[testloader.transform] = BaseTransforms
          /\ lists[trainloader.transform] = BaseTransforms \o <<colout_batch>>
    /\ X.test => X.tf = BaseTransforms
    /\ (~X.test /\ X.call = 1) => X.tf = BaseTransforms
    /\ (~X.test /\ X.call > 1) => X.tf = BaseTransforms \o <<colout_batch>>

\* a test batch of the third call, after training batches with ColOut
C4_Witness ==
    /\ X.test
    /\ X.call = 3
    /\ pc = "eval_forward"

\* C6: the third call gets the object the second call trained, already
\* stepped through num_epochs epochs and now with squeeze-excite; the first
\* and the second call each get a new model with no optimizer step.
C6_ThirdRunReusesModel ==
    /\ Len(entry) >= 1 => entry[1].steps = 0
    /\ Len(entry) >= 2 => entry[2].steps = 0
    /\ Len(entry) >= 3 =>
          /\ entry[3].model = entry[2].model
          /\ entry[3].steps = num_epochs * NumBatches(TrainSetSize)
          /\ models[entry[3].model].se
    /\ cell \in {"third", "third_running", "done"} =>
          /\ model = entry[2].model
          /\ models[model].se
          /\ Len(models) = 2

\* the third call has started
C6_Witness ==
    /\ Len(entry) = 3
    /\ pc = "forward"

\* C7: the gradient an opt.step() consumes is the current batch's alone:
\* gradients are empty as each batch starts and all through the evaluation,
\* each call enters with the gradients cleared and makes its own optimizer.
C7_GradientOfOneBatch ==
    /\ pc = "step" => models[opt.model].grad = <<BatchId(X)>>
    /\ pc = "zero_grad" => step_grad = <<BatchId(X)>>
    /\ Len(step_grad) <= 1
    /\ pc \in {"fetch", "forward", "loss", "backward", "eval", "epoch", "return"}
          \cup EvalPcs => models[m].grad = <<>>
    /\ \A i \in 1..Len(entry) : entry[i].grad = <<>>
    /\ pc \notin {"idle", "setup"} => opt.id = call /\ opt.model = m

\* a step of the third call, on the model the second call trained
C7_Witness ==
    /\ pc = "zero_grad"
    /\ call = 3
    /\ epoch = 0
    /\ b = 1
    /\ step_grad = <<[call |-> 3, epoch |-> 0, b |-> 1]>>

\* C8: in an evaluation num_right and eval_size start at 0 and are the sums
\* over the test batches seen in this evaluation, so 0 <= num_right <=
\* eval_size; at the end eval_size is the size of the test set; the printed
\* accuracy is 100 * num_right / eval_size of this evaluation, within [0, 100].
C8_EvaluationCounters ==
    /\ pc \in EvalPcs =>
          /\ Len(seen) = tb
          /\ num_right = SumOf(seen, "right")
          /\ eval_size = SumOf(seen, "len")
          /\ 0 <= num_right /\ num_right <= eval_size
    /\ (pc = "eval_fetch" /\ tb = 0) => (num_right = 0 /\ eval_size = 0)
    /\ pc = "report" => eval_size = TestSetSize
    /\ (pc = "epoch" /\ epoch > 0) =>
          /\ acc_percent = [num |-> 100 * SumOf(seen, "right"), den |-> TestSetSize]
          /\ acc_percent.den > 0
          /\ 0 <= acc_percent.num /\ acc_percent.num <= 100 * acc_percent.den

\* the third epoch's accuracy is printed, neither 0% nor 100%
C8_Witness ==
    /\ pc = "epoch"
    /\ epoch = 3
    /\ acc_percent.num > 0
    /\ acc_percent.num < 100 * acc_percent.den

---------------------------------------------------------------------------
(* Properties of the workflow (SpecCI) *)

HandedSecret(i) == runs[i].secret \/ runs[i].job \in {"running", "done", "cancelled"}

\* C2 (as claimed): a run of a pull request that is in progress when a new
\* commit of that pull request triggers the workflow is cancelled, unless the
\* pull request's branch is main or dev, and then it is left to finish.
C2_CancelledUnlessMainOrDev ==
    \A j \in 1..Len(runs) : \A i \in runs[j].found :
        IF runs[j].event.head \notin {"main", "dev"}
        THEN runs[i].status = "cancelled"
        ELSE runs[i].status \in {"in_progress", "completed"}

\* C5: the job runs, and is handed the secret, only in a repository owned by
\* mosaicml; under any other owner every job is skipped, whatever the event.
C5_SecretOnlyForMosaicml ==
    /\ \A i \in 1..Len(runs) :
          /\ HandedSecret(i) => repository_owner = "mosaicml"
          /\ runs[i].secret <=> runs[i].job \in {"running", "done", "cancelled"}
    /\ repository_owner # "mosaicml" =>
          \A i \in 1..Len(runs) : runs[i].job \in {"none", "skipped"}

\* another owner: a pull request's run and a run started by hand, both skipped
C5_Witness ==
    /\ repository_owner # "mosaicml"
    /\ \E i \in 1..Len(runs) :
          runs[i].event.name = "pull_request_target" /\ runs[i].job = "skipped"
    /\ \E i \in 1..Len(runs) :
          runs[i].event.name = "workflow_dispatch" /\ runs[i].job = "skipped"

=============================================================================
